---- MODULE Spec2Model ----
(***************************************************************************)
(* A model of the retrieval core of the research assistant                 *)
(* (src/utils/rag.py): DocumentProcessor.chunk_text, the VectorStore       *)
(* (load_store, initialize_with_default, save_store, add_documents,        *)
(* search) and RAGSystem.retrieve_relevant_context.                        *)
(*                                                                         *)
(* Texts, chunk contents, queries and keywords are sequences of one-       *)
(* character strings.  Embedding vectors are pairs of integers.            *)
(*                                                                         *)
(* The chat turn of src/app_original.py (main, generate_response,          *)
(* should_use_web_search) and RAGSystem.process_and_store_documents run    *)
(* over the same store.                                                    *)
(*                                                                         *)
(* The specifications share the variables:                                 *)
(*   SpecChunk   runs the loop of chunk_text one iteration per step;       *)
(*   Spec        runs the vector store over its two persisted blobs, with  *)
(*               writes that can fail and a process that can stop;         *)
(*   SpecSearch  runs the store over healthy storage and queries it;       *)
(*   SpecIngest  runs process_and_store_documents on batches of files;     *)
(*   SpecTurn    runs chat turns over a store that was seeded or loaded.   *)
(***************************************************************************)
EXTENDS Integers, Sequences, FiniteSets, TLC

VARIABLES
  \* ---- DocumentProcessor.chunk_text (rag.py 69-81) ----
  text,         \* the text being chunked
  chunk_size,   \* parameter chunk_size
  overlap,      \* parameter overlap
  start,        \* local variable start
  chunks,       \* local variable chunks
  cpc,          \* position in chunk_text: "idle", "loop", "done"
  \* ---- VectorStore (rag.py 83-161) ----
  documents,    \* self.documents
  embeddings,   \* self.embeddings
  diskDocs,     \* the blob <store_path>/documents.pkl
  diskEmbs,     \* the blob <store_path>/embeddings.pkl
  pc,           \* "start", "loaded" (inside __init__, after load_store), "up", "crashed"
  saveOk,       \* outcome of the latest save_store of this store: "none", "ok", "failed"
  prev,         \* history: the store that was replaced or that crashed, kept
                \* until the first operation on the store constructed after it
  last,         \* history: the latest operation, its inputs and its outputs
  \* ---- the chat turn (app_original.py 114-206) ----
  memory,       \* st.session_state.memory: the messages of the conversation
  turn          \* history: the latest chat turn, its inputs and what it did

chunkVars == <<text, chunk_size, overlap, start, chunks, cpc>>
storeVars == <<documents, embeddings, diskDocs, diskEmbs, pc, saveOk, prev, last>>
turnVars == <<memory, turn>>
vars == <<text, chunk_size, overlap, start, chunks, cpc,
          documents, embeddings, diskDocs, diskEmbs, pc, saveOk, prev, last,
          memory, turn>>

-----------------------------------------------------------------------------
(* Bounds of the model *)

\* longest text given to chunk_text
MaxTextLen == 5
\* largest chunk_size and overlap tried
MaxChunkSize == 3
\* the loop of chunk_text is followed for at most this many iterations
MaxIterations == 7
\* most records, and most embeddings, one store holds
MaxDocs == 3
\* most records in one add_documents call
MaxBatch == 2
\* largest top_k tried in search
MaxTopK == 3

-----------------------------------------------------------------------------
(* Sequences and Python slices *)

Min(a, b) == IF a < b THEN a ELSE b
Max(a, b) == IF a < b THEN b ELSE a

SeqsUpTo(S, n) == UNION {[1..k -> S] : k \in 0..n}

IsPrefix(s, t) == Len(s) <= Len(t) /\ SubSeq(t, 1, Len(s)) = s

Reverse(s) == [i \in 1..Len(s) |-> s[Len(s) + 1 - i]]

\* Python's index normalisation in a slice s[a:b] over a sequence of length n
PyIndex(a, n) == IF a < 0 THEN Max(n + a, 0) ELSE Min(a, n)

\* Python's s[a:b]
PySlice(s, a, b) ==
  LET lo == PyIndex(a, Len(s))
      hi == PyIndex(b, Len(s))
  IN  IF lo >= hi THEN <<>> ELSE SubSeq(s, lo + 1, hi)

RECURSIVE Concat(_)
Concat(ss) == IF ss = <<>> THEN <<>> ELSE Head(ss) \o Concat(Tail(ss))

-----------------------------------------------------------------------------
(* DocumentProcessor.chunk_text *)

\* default parameters of chunk_text
DefaultChunkSize == 1000
DefaultOverlap == 200

\* rag.py 76: end = start + chunk_size
ChunkEnd(st, size) == st + size

ChunkAtDropsLast(t, st, size) == PySlice(t, st, ChunkEnd(st, size) - 1)

\* rag.py 77: chunk = text[start:end]
ChunkAt(t, st, size) == PySlice(t, st, ChunkEnd(st, size))

NextStartSkipsOne(st, size, ov) == ChunkEnd(st, size) - ov + 1

\* rag.py 79: start = end - overlap
NextStart(st, size, ov) == ChunkEnd(st, size) - ov

\* rag.py 75: while start < text_length
LoopCondition(st, t) == st < Len(t)

\* one iteration of the loop, rag.py 75-79
ChunkIteration(t, st, size, ov, acc) ==
  [chunks |-> Append(acc, ChunkAt(t, st, size)),
   start  |-> NextStart(st, size, ov)]

\* chunk_text as a function, for parameters with overlap < chunk_size
RECURSIVE ChunkFrom(_, _, _, _, _)
ChunkFrom(t, st, size, ov, acc) ==
  IF LoopCondition(st, t)
  THEN LET it == ChunkIteration(t, st, size, ov, acc)
       IN  ChunkFrom(t, it.start, size, ov, it.chunks)
  ELSE acc

ChunkText(t, size, ov) == ChunkFrom(t, 0, size, ov, <<>>)

Alphabet == {"a", "b"}
Texts == SeqsUpTo(Alphabet, MaxTextLen)

\* rag.py 71-73: chunks = [], start = 0
ChunkCall(t, size, ov) ==
  /\ cpc = "idle"
  /\ text' = t
  /\ chunk_size' = size
  /\ overlap' = ov
  /\ start' = 0
  /\ chunks' = <<>>
  /\ cpc' = "loop"
  /\ UNCHANGED storeVars
  /\ UNCHANGED turnVars

\* rag.py 75-79: one iteration
ChunkStep ==
  /\ cpc = "loop"
  /\ LoopCondition(start, text)
  /\ Len(chunks) < MaxIterations
  /\ LET it == ChunkIteration(text, start, chunk_size, overlap, chunks)
     IN  /\ chunks' = it.chunks
         /\ start' = it.start
  /\ UNCHANGED <<text, chunk_size, overlap, cpc>>
  /\ UNCHANGED storeVars
  /\ UNCHANGED turnVars

\* rag.py 75, 81: the loop condition fails, return chunks
ChunkReturn ==
  /\ cpc = "loop"
  /\ ~LoopCondition(start, text)
  /\ cpc' = "done"
  /\ UNCHANGED <<text, chunk_size, overlap, start, chunks>>
  /\ UNCHANGED storeVars
  /\ UNCHANGED turnVars

-----------------------------------------------------------------------------
(* The embedding capability (models/embeddings.py, AzureEmbeddingModel) *)

\* get_single_embedding returns no vector
Absent == <<>>

\* the vector of a text: decided by its first character
EmbedText(t) ==
  IF t = <<>> THEN <<1, 1>>
  ELSE CASE t[1] = "a" -> <<1, 0>>
         [] t[1] = "b" -> <<0, 1>>
         [] t[1] = "A" -> <<1, 0>>
         [] t[1] = "E" -> <<0, 1>>
         [] t[1] = "N" -> <<0 - 1, 1>>
         [] OTHER -> <<1, 1>>

\* get_embeddings(texts): one vector per text, in the order of the texts
EmbedBatch(ts) == [i \in 1..Len(ts) |-> EmbedText(ts[i])]

\* get_single_embedding(query): a vector, or none when the provider is unavailable
EmbedOne(q, available) == IF available THEN EmbedText(q) ELSE Absent

-----------------------------------------------------------------------------
(* Records and blobs *)

\* rag.py 103: "Amazon-com-Inc-2023-Annual-Report.pdf"
DefaultSource ==
  <<"A","m","a","z","o","n","-","c","o","m","-","I","n","c","-","2","0","2","3","-","A","n","n","u","a","l","-","R","e","p","o","r","t",".","p","d","f">>
\* app_original.py 154: "Amazon-com-Inc-2023-Annual-Report.pdf"
ReportFileName ==
  <<"A","m","a","z","o","n","-","c","o","m","-","I","n","c","-","2","0","2","3","-","A","n","n","u","a","l","-","R","e","p","o","r","t",".","p","d","f">>

\* app_original.py 77: "./temp/upload.txt"
UploadSource ==
  <<".","/","t","e","m","p","/","u","p","l","o","a","d",".","t","x","t">>

\* the text of the default report, when the download succeeds
DefaultText == <<"d", "e", "f">>

\* rag.py 101-106
DefaultDocuments(cs) ==
  [i \in 1..Len(cs) |->
     [content |-> cs[i], source |-> DefaultSource, chunk_id |-> i - 1,
      is_default |-> TRUE]]

\* rag.py 198-204
UploadDocuments(cs) ==
  [i \in 1..Len(cs) |->
     [content |-> cs[i], source |-> UploadSource, chunk_id |-> i - 1,
      is_default |-> FALSE]]

Contents == {<<"a">>}
Batches == {UploadDocuments(cs) : cs \in SeqsUpTo(Contents, MaxBatch)}

\* a persisted blob: absent, unreadable, or holding a pickled list
Missing == [st |-> "missing", data |-> <<>>]
Corrupt == [st |-> "corrupt", data |-> <<>>]
Pickled(xs) == [st |-> "ok", data |-> xs]

-----------------------------------------------------------------------------
(* VectorStore.load_store, rag.py 109-118 *)

\* documents.pkl is read when it exists (112-114); embeddings.pkl is then
\* opened and read (115-116); an exception at either read is logged (117-118)
\* and leaves what was assigned before it.
LoadStore(dD, dE) ==
  [documents  |-> IF dD.st = "ok" THEN dD.data ELSE <<>>,
   embeddings |-> IF dD.st = "ok" /\ dE.st = "ok" THEN dE.data ELSE <<>>,
   logged     |-> dD.st = "corrupt" \/ (dD.st = "ok" /\ dE.st # "ok")]

\* a read failure of the persisted state: a blob missing or unreadable
ReadFailure(dD, dE) == dD.st # "ok" \/ dE.st # "ok"

-----------------------------------------------------------------------------
(* VectorStore.save_store, rag.py 120-129 *)

\* where a write of save_store can fail
IoOutcomes ==
  {"ok", "fail_open_docs", "fail_dump_docs", "fail_open_embs", "fail_dump_embs"}

\* the blobs after save_store ran up to the point io names; opening a file
\* for writing truncates it, so a failed dump leaves an unreadable blob
BlobsAfter(docs, embs, dD, dE, io) ==
  CASE io = "ok"             -> [dD |-> Pickled(docs), dE |-> Pickled(embs)]
    [] io = "fail_open_docs" -> [dD |-> dD,            dE |-> dE]
    [] io = "fail_dump_docs" -> [dD |-> Corrupt,       dE |-> dE]
    [] io = "fail_open_embs" -> [dD |-> Pickled(docs), dE |-> dE]
    [] io = "fail_dump_embs" -> [dD |-> Pickled(docs), dE |-> Corrupt]

SaveStoreRaises(docs, embs, dD, dE, io) ==
  [blobs  |-> BlobsAfter(docs, embs, dD, dE, io),
   logged |-> FALSE,
   raised |-> io # "ok"]

SaveStoreDocumentsOnly(docs, embs, dD, dE, io) ==
  [blobs  |-> BlobsAfter(docs, embs, dD, dE,
                         IF io = "ok" THEN "fail_open_embs" ELSE io),
   logged |-> io # "ok",
   raised |-> FALSE]

\* 122-127 write the two blobs in turn; 128-129 log any exception and return
SaveStore(docs, embs, dD, dE, io) ==
  [blobs  |-> BlobsAfter(docs, embs, dD, dE, io),
   logged |-> io # "ok",
   raised |-> FALSE]

-----------------------------------------------------------------------------
(* VectorStore.add_documents, rag.py 131-140 *)

\* rag.py 136: zip(documents, embeddings) stops at the shorter of the two
ZipLen(batch, embs) == Min(Len(batch), Len(embs))

\* 133-134 embed the contents, 136-138 append pairwise, 140 save
AddDocumentsResult(docs, embs, dD, dE, batch, io) ==
  LET texts   == [i \in 1..Len(batch) |-> batch[i].content]
      vectors == EmbedBatch(texts)
      n       == ZipLen(batch, vectors)
      newDocs == docs \o SubSeq(batch, 1, n)
      newEmbs == embs \o SubSeq(vectors, 1, n)
      saved   == SaveStore(newDocs, newEmbs, dD, dE, io)
  IN  [documents  |-> newDocs,
       embeddings |-> newEmbs,
       blobs      |-> saved.blobs,
       logged     |-> saved.logged,
       raised     |-> saved.raised]

-----------------------------------------------------------------------------
(* VectorStore.search, rag.py 142-161 *)

Dot(u, v) == u[1] * v[1] + u[2] * v[2]

\* The cosine similarity of q and e, kept exactly as the rational
\* sign(q.e) * (q.e)^2 / (|q|^2 |e|^2): the signed square of the cosine, which
\* orders pairs as the cosine does.  A zero vector has similarity 0.
Cosine(q, e) ==
  LET d == Dot(q, e)
      n == Dot(q, q) * Dot(e, e)
  IN  IF n = 0 THEN [num |-> 0, den |-> 1]
      ELSE [num |-> IF d < 0 THEN 0 - d * d ELSE d * d, den |-> n]

SimLess(s, t) == s.num * t.den < t.num * s.den
SimEq(s, t) == s.num * t.den = t.num * s.den

\* rag.py 151: one similarity per stored embedding
Similarities(q, embs) == [i \in 1..Len(embs) |-> Cosine(q, embs[i])]

\* rag.py 152, np.argsort(similarities): an ascending order of the indices;
\* the default sort is not stable, so equal similarities come in any order
Argsort(sims) ==
  {p \in Permutations(1..Len(sims)) :
     \A i, j \in 1..Len(sims) : i < j => ~SimLess(sims[p[j]], sims[p[i]])}

\* rag.py 152: [::-1][:top_k]
TopIndices(p, k) == PySlice(Reverse(p), 0, k)

\* rag.py 144-161.  Indices are positions 1..n here (0..n-1 in the code).
SearchOutcomes(docs, embs, q, k) ==
  IF docs = <<>> THEN {[results |-> <<>>, raised |-> FALSE]}
  ELSE IF q = Absent THEN {[results |-> <<>>, raised |-> FALSE]}
  ELSE IF embs = <<>>
    THEN \* cosine_similarity rejects an empty array
         {[results |-> <<>>, raised |-> TRUE]}
  ELSE LET sims == Similarities(q, embs)
       IN  {LET top == TopIndices(p, k)
            IN  IF \E i \in 1..Len(top) : top[i] > Len(docs)
                THEN \* self.documents[idx] is out of range
                     [results |-> <<>>, raised |-> TRUE]
                ELSE [results |->
                        [i \in 1..Len(top) |->
                           [idx |-> top[i], doc |-> docs[top[i]],
                            similarity |-> sims[top[i]]]],
                      raised |-> FALSE]
            : p \in Argsort(sims)}

-----------------------------------------------------------------------------
(* RAGSystem.retrieve_relevant_context, rag.py 210-225 *)

UpperLetters ==
  <<"A","B","C","D","E","F","G","H","I","J","K","L","M","N","O","P","Q","R","S","T","U","V","W","X","Y","Z">>
LowerLetters ==
  <<"a","b","c","d","e","f","g","h","i","j","k","l","m","n","o","p","q","r","s","t","u","v","w","x","y","z">>

LowerChar(c) ==
  IF \E i \in 1..26 : UpperLetters[i] = c
  THEN LowerLetters[CHOOSE i \in 1..26 : UpperLetters[i] = c]
  ELSE c

\* str.lower()
Lower(s) == [i \in 1..Len(s) |-> LowerChar(s[i])]

\* needle in hay
Contains(hay, needle) ==
  \E i \in 0..(Len(hay) - Len(needle)) : SubSeq(hay, i + 1, i + Len(needle)) = needle

\* rag.py 167-172
financial_keywords ==
  << <<"r","e","v","e","n","u","e">>,
     <<"i","n","c","o","m","e">>,
     <<"p","r","o","f","i","t">>,
     <<"A","W","S">>,
     <<"s","e","g","m","e","n","t">>,
     <<"g","r","o","w","t","h">>,
     <<"e","a","r","n","i","n","g","s">>,
     <<"E","B","I","T","D","A">>,
     <<"c","a","s","h"," ","f","l","o","w">>,
     <<"o","p","e","r","a","t","i","n","g">>,
     <<"m","a","r","g","i","n">>,
     <<"i","n","v","e","s","t","m","e","n","t">>,
     <<"s","h","a","r","e","h","o","l","d","e","r">>,
     <<"d","i","v","i","d","e","n","d">>,
     <<"s","t","o","c","k">>,
     <<"f","o","r","e","c","a","s","t">>,
     <<"g","u","i","d","a","n","c","e">>,
     <<"f","i","n","a","n","c","i","a","l">>,
     <<"m","e","t","r","i","c","s">>,
     <<"q","u","a","r","t","e","r","l","y">>,
     <<"a","n","n","u","a","l">> >>

\* rag.py 217: any(keyword in query.lower() for keyword in self.financial_keywords)
IsFinancial(q) ==
  \E i \in 1..Len(financial_keywords) : Contains(Lower(q), financial_keywords[i])

\* the position of the last c in s, 0 when there is none
RECURSIVE LastIndexFrom(_, _, _)
LastIndexFrom(s, c, i) ==
  IF i = 0 THEN 0
  ELSE IF s[i] = c THEN i
  ELSE LastIndexFrom(s, c, i - 1)

LastIndex(s, c) == LastIndexFrom(s, c, Len(s))

\* os.path.basename: what follows the last "/" of the path
Basename(path) == SubSeq(path, LastIndex(path, "/") + 1, Len(path))

\* the decimal digits of a small number, as the f-string writes them
Digits == <<"0","1","2","3","4","5","6","7","8","9">>

RECURSIVE Str(_)
Str(n) == IF n < 10 THEN <<Digits[n + 1]>> ELSE Str(n \div 10) \o <<Digits[(n % 10) + 1]>>

\* rag.py 219: "Relevant information from documents:\n\n"
ContextHeader ==
  <<"R","e","l","e","v","a","n","t"," ","i","n","f","o","r","m","a","t","i","o","n"," ","f","r","o","m"," ","d","o","c","u","m","e","n","t","s",":","\n","\n">>

\* rag.py 222-223: "Source {i} (from {source_name}):\n" and "{content}\n\n"
BlockText(b) ==
  <<"S","o","u","r","c","e"," ">> \o Str(b.n) \o <<" ","(","f","r","o","m"," ">> \o b.from \o <<")",":","\n">>
  \o b.content \o <<"\n","\n">>

RECURSIVE BlocksText(_)
BlocksText(blocks) ==
  IF blocks = <<>> THEN <<>>
  ELSE BlockText(Head(blocks)) \o BlocksText(Tail(blocks))

\* rag.py 213-225: the context string that is returned for these blocks, ""
\* when there is none
ContextText(blocks) ==
  IF blocks = <<>> THEN <<>> ELSE ContextHeader \o BlocksText(blocks)

\* rag.py 219-223: one labelled block per result, in rank order
FormatContext(results) ==
  [i \in 1..Len(results) |->
     [n |-> i, from |-> Basename(results[i].doc.source),
      content |-> results[i].doc.content]]

\* default top_k of retrieve_relevant_context
RetrieveTopK == 3

\* rag.py 212-225
RetrieveOutcomes(docs, embs, query, q) ==
  {IF s.raised
   THEN [results |-> <<>>, raised |-> TRUE, context |-> <<>>, is_financial |-> FALSE]
   ELSE IF s.results = <<>>
   THEN [results |-> <<>>, raised |-> FALSE, context |-> <<>>, is_financial |-> FALSE]
   ELSE [results |-> s.results, raised |-> FALSE,
         context |-> FormatContext(s.results), is_financial |-> IsFinancial(query)]
   : s \in SearchOutcomes(docs, embs, q, RetrieveTopK)}

\* "What was AWS revenue growth?"
QueryAwsRevenue ==
  <<"W","h","a","t"," ","w","a","s"," ","A","W","S"," ","r","e","v","e","n","u","e"," ","g","r","o","w","t","h","?">>
\* "What is the weather today?"
QueryWeather ==
  <<"W","h","a","t"," ","i","s"," ","t","h","e"," ","w","e","a","t","h","e","r"," ","t","o","d","a","y","?">>
\* "AWS"
QueryAws ==
  <<"A","W","S">>
\* "EBITDA 2023"
QueryEbitda ==
  <<"E","B","I","T","D","A"," ","2","0","2","3">>
\* "Net INCOME"
QueryIncome ==
  <<"N","e","t"," ","I","N","C","O","M","E">>

Queries == {QueryAwsRevenue, QueryWeather, QueryAws, QueryEbitda, QueryIncome}

-----------------------------------------------------------------------------
(* The state machine of the store *)

NoLast ==
  [op |-> "none", io |-> "ok", raised |-> FALSE, logged |-> FALSE,
   batch |-> <<>>, preDocs |-> <<>>, preEmbs |-> <<>>,
   query |-> <<>>, qvec |-> Absent, top_k |-> 0,
   results |-> <<>>, context |-> <<>>, is_financial |-> FALSE,
   readFailure |-> FALSE, files |-> <<>>, returned |-> 0]

NoPrev == [how |-> "none", docs |-> <<>>, embs |-> <<>>, saveOk |-> "none"]

\* no context assembled
NoContext == [rag |-> <<>>, web |-> "none"]

\* no chat turn yet
NoTurn ==
  [op |-> "none", prompt |-> <<>>, use_rag |-> FALSE, use_web_search |-> FALSE,
   retrieved |-> <<>>, web |-> "none", raised |-> FALSE, failed_in |-> "none",
   needs_web_search |-> FALSE, web_searched |-> FALSE, llm_called |-> FALSE,
   context |-> NoContext, sources |-> <<>>, messages |-> <<>>, response |-> "",
   memoryBefore |-> <<>>, memoryAtCall |-> <<>>, stopped |-> "no"]

\* rag.py 84-89: a VectorStore is constructed over the store path: documents
\* and embeddings start empty and load_store runs.  The store it replaces, if
\* any, is remembered in prev.  The session that constructs the store starts
\* with a new, empty memory (app_original.py 20-25).
Construct ==
  /\ pc \in {"start", "up", "crashed"}
  /\ LET r == LoadStore(diskDocs, diskEmbs)
     IN  /\ documents' = r.documents
         /\ embeddings' = r.embeddings
         /\ last' = [NoLast EXCEPT !.op = "load", !.logged = r.logged,
                                   !.readFailure = ReadFailure(diskDocs, diskEmbs)]
  /\ prev' = IF pc = "up"
             THEN [how |-> "reload", docs |-> documents, embs |-> embeddings,
                   saveOk |-> saveOk]
             ELSE prev
  /\ saveOk' = "none"
  /\ pc' = "loaded"
  /\ memory' = <<>>
  /\ turn' = NoTurn
  /\ UNCHANGED <<diskDocs, diskEmbs>>
  /\ UNCHANGED chunkVars

\* rag.py 92: the loaded store is not empty, no seeding
ConstructKeep ==
  /\ pc = "loaded"
  /\ documents # <<>>
  /\ pc' = "up"
  /\ last' = [NoLast EXCEPT !.op = "init"]
  /\ UNCHANGED <<documents, embeddings, diskDocs, diskEmbs, saveOk, prev>>
  /\ UNCHANGED chunkVars
  /\ UNCHANGED turnVars

\* rag.py 92-99: the store is empty and the default report cannot be loaded
\* (load_default_pdf returns ""), so nothing is added
SeedNothing ==
  /\ pc = "loaded"
  /\ documents = <<>>
  /\ pc' = "up"
  /\ last' = [NoLast EXCEPT !.op = "init"]
  /\ UNCHANGED <<documents, embeddings, diskDocs, diskEmbs, saveOk, prev>>
  /\ UNCHANGED chunkVars
  /\ UNCHANGED turnVars

\* rag.py 92-107: the store is empty, the default report is chunked and added
SeedDefault(io) ==
  /\ pc = "loaded"
  /\ documents = <<>>
  /\ Len(embeddings) < MaxDocs
  /\ LET batch == DefaultDocuments(ChunkText(DefaultText, DefaultChunkSize, DefaultOverlap))
         r == AddDocumentsResult(documents, embeddings, diskDocs, diskEmbs, batch, io)
     IN  /\ documents' = r.documents
         /\ embeddings' = r.embeddings
         /\ diskDocs' = r.blobs.dD
         /\ diskEmbs' = r.blobs.dE
         /\ saveOk' = IF io = "ok" THEN "ok" ELSE "failed"
         /\ last' = [NoLast EXCEPT !.op = "init", !.io = io, !.raised = r.raised,
                                   !.logged = r.logged, !.batch = batch,
                                   !.preDocs = documents, !.preEmbs = embeddings]
  /\ pc' = "up"
  /\ UNCHANGED prev
  /\ UNCHANGED chunkVars
  /\ UNCHANGED turnVars

\* rag.py 131-140: add_documents(batch), save_store ending as io says
AddDocuments(batch, io) ==
  /\ pc = "up"
  /\ Len(documents) + Len(batch) <= MaxDocs
  /\ Len(embeddings) + Len(batch) <= MaxDocs
  /\ LET r == AddDocumentsResult(documents, embeddings, diskDocs, diskEmbs, batch, io)
     IN  /\ documents' = r.documents
         /\ embeddings' = r.embeddings
         /\ diskDocs' = r.blobs.dD
         /\ diskEmbs' = r.blobs.dE
         /\ saveOk' = IF io = "ok" THEN "ok" ELSE "failed"
         /\ last' = [NoLast EXCEPT !.op = "add", !.io = io, !.raised = r.raised,
                                   !.logged = r.logged, !.batch = batch,
                                   !.preDocs = documents, !.preEmbs = embeddings]
  /\ prev' = NoPrev
  /\ UNCHANGED pc
  /\ UNCHANGED chunkVars
  /\ UNCHANGED turnVars

\* The process stops inside add_documents(batch), rag.py 131-140, having run
\* save_store up to the point at: before the first open, inside the first
\* dump, between the two writes, or inside the second dump.  What was in
\* memory is gone; prev remembers what the store held when the call began.
CrashDuringAdd(batch, at) ==
  /\ pc = "up"
  /\ Len(documents) + Len(batch) <= MaxDocs
  /\ Len(embeddings) + Len(batch) <= MaxDocs
  /\ at # "ok"
  /\ LET r == AddDocumentsResult(documents, embeddings, diskDocs, diskEmbs, batch, at)
     IN  /\ diskDocs' = r.blobs.dD
         /\ diskEmbs' = r.blobs.dE
  /\ prev' = [how |-> "crash", docs |-> documents, embs |-> embeddings,
              saveOk |-> saveOk]
  /\ documents' = <<>>
  /\ embeddings' = <<>>
  /\ saveOk' = "none"
  /\ last' = [NoLast EXCEPT !.op = "crash"]
  /\ pc' = "crashed"
  /\ UNCHANGED chunkVars
  /\ UNCHANGED turnVars

\* rag.py 142-161: search(query, top_k)
Search(query, k, available) ==
  /\ pc = "up"
  /\ LET q == EmbedOne(query, available)
     IN  \E s \in SearchOutcomes(documents, embeddings, q, k) :
           last' = [NoLast EXCEPT !.op = "search", !.query = query, !.qvec = q,
                                  !.top_k = k, !.results = s.results,
                                  !.raised = s.raised]
  /\ prev' = NoPrev
  /\ UNCHANGED <<documents, embeddings, diskDocs, diskEmbs, pc, saveOk>>
  /\ UNCHANGED chunkVars
  /\ UNCHANGED turnVars

\* rag.py 210-225: retrieve_relevant_context(query)
Retrieve(query, available) ==
  /\ pc = "up"
  /\ LET q == EmbedOne(query, available)
     IN  \E r \in RetrieveOutcomes(documents, embeddings, query, q) :
           last' = [NoLast EXCEPT !.op = "retrieve", !.query = query, !.qvec = q,
                                  !.top_k = RetrieveTopK, !.results = r.results,
                                  !.raised = r.raised, !.context = r.context,
                                  !.is_financial = r.is_financial]
  /\ prev' = NoPrev
  /\ UNCHANGED <<documents, embeddings, diskDocs, diskEmbs, pc, saveOk>>
  /\ UNCHANGED chunkVars
  /\ UNCHANGED turnVars

-----------------------------------------------------------------------------
(* RAGSystem.process_and_store_documents, rag.py 175-208 *)

\* at most this many paths in one call
MaxFiles == 2

\* a text that chunk_text, with its default sizes, cuts into two chunks
LongText == [i \in 1..(DefaultChunkSize - DefaultOverlap + 1) |-> "a"]

\* The files behind the paths.  A file is its path, whether it exists,
\* whether its extractor can read it, and the text the extractor then returns.
\* "./temp/missing.txt": a path with no file behind it
PathMissing ==
  <<".","/","t","e","m","p","/","m","i","s","s","i","n","g",".","t","x","t">>

FileMissing ==
  [path |-> PathMissing, exists |-> FALSE, readable |-> FALSE, text |-> <<>>]

\* "./temp/notes.txt": a text file of one chunk
PathNotes ==
  <<".","/","t","e","m","p","/","n","o","t","e","s",".","t","x","t">>

FileNotes ==
  [path |-> PathNotes, exists |-> TRUE, readable |-> TRUE, text |-> <<"a">>]

\* "./temp/memo.txt": a text file that mentions the file name of the default report
PathMemo ==
  <<".","/","t","e","m","p","/","m","e","m","o",".","t","x","t">>

FileMemo ==
  [path |-> PathMemo, exists |-> TRUE, readable |-> TRUE, text |-> ReportFileName]

\* "./temp/REPORT.PDF": a PDF of two chunks, its extension in upper case
PathReport ==
  <<".","/","t","e","m","p","/","R","E","P","O","R","T",".","P","D","F">>

FileReport ==
  [path |-> PathReport, exists |-> TRUE, readable |-> TRUE, text |-> LongText]

\* "./temp/broken.docx": a .docx that its extractor cannot read
PathBroken ==
  <<".","/","t","e","m","p","/","b","r","o","k","e","n",".","d","o","c","x">>

FileBroken ==
  [path |-> PathBroken, exists |-> TRUE, readable |-> FALSE, text |-> <<>>]

\* "./temp/data.csv": a file with no extractor
PathData ==
  <<".","/","t","e","m","p","/","d","a","t","a",".","c","s","v">>

FileData ==
  [path |-> PathData, exists |-> TRUE, readable |-> TRUE, text |-> <<"b">>]

Files == {FileMissing, FileNotes, FileMemo, FileReport, FileBroken, FileData}

\* the file behind a path
FileAt(path) == CHOOSE f \in Files : f.path = path

\* the paths given to process_and_store_documents: any sequence, the same
\* path twice included (two uploads of one name)
IngestPaths == {PathMissing, PathNotes, PathReport, PathBroken, PathData}

FileBatches == SeqsUpTo(IngestPaths, MaxFiles)

\* the uploads that are followed by chat turns: a file that mentions the file
\* name of the default report, and one that does not
TurnUploads == {<<PathMemo>>, <<PathNotes>>}

\* rag.py 183: os.path.splitext(file_path)[1], the part of the file name from
\* its last dot on, "" when there is no dot after the leading ones
SplitExtOfName(name, lastDot) ==
  IF lastDot = 0 THEN <<>>
  ELSE IF \A j \in 1..(lastDot - 1) : name[j] = "." THEN <<>>
  ELSE SubSeq(name, lastDot, Len(name))

SplitExt(path) == SplitExtOfName(Basename(path), LastIndex(Basename(path), "."))

\* rag.py 184-191: the extensions that have an extractor
SupportedExtensions ==
  { <<".","p","d","f">>, <<".","d","o","c","x">>, <<".","t","x","t">> }

\* rag.py 35-66: the extractors return "" when anything raises
ExtractText(f) == IF f.readable THEN f.text ELSE <<>>

\* rag.py 198-204: the records of one file
FileDocuments(path, cs) ==
  [i \in 1..Len(cs) |->
     [content |-> cs[i], source |-> path, chunk_id |-> i - 1,
      is_default |-> FALSE]]

\* a variant that gives up on the rest of the batch at the first path it skips
ProcessFilesStopsAtSkipped(paths) ==
  LET RECURSIVE From(_)
      From(i) ==
        IF i > Len(paths) THEN <<>>
        ELSE IF ~FileAt(paths[i]).exists THEN <<>>
        ELSE IF Lower(SplitExt(paths[i])) \notin SupportedExtensions THEN <<>>
        ELSE FileDocuments(paths[i],
                           ChunkText(ExtractText(FileAt(paths[i])),
                                     DefaultChunkSize, DefaultOverlap))
             \o From(i + 1)
  IN  From(1)

\* rag.py 179-204: the loop over file_paths, giving the records to add
ProcessFiles(paths) ==
  LET RECURSIVE From(_)
      From(i) ==
        IF i > Len(paths) THEN <<>>
        ELSE IF ~FileAt(paths[i]).exists THEN From(i + 1)
        ELSE IF Lower(SplitExt(paths[i])) \notin SupportedExtensions THEN From(i + 1)
        ELSE FileDocuments(paths[i],
                           ChunkText(ExtractText(FileAt(paths[i])),
                                     DefaultChunkSize, DefaultOverlap))
             \o From(i + 1)
  IN  From(1)

\* rag.py 175-208: process_and_store_documents(file_paths), the save_store of
\* its add_documents ending as io says
Ingest(paths, io) ==
  /\ pc = "up"
  /\ \E batch \in {ProcessFiles(paths)} :
       /\ Len(documents) + Len(batch) <= MaxDocs
       /\ Len(embeddings) + Len(batch) <= MaxDocs
       /\ \E r \in {AddDocumentsResult(documents, embeddings, diskDocs, diskEmbs, batch, io)} :
            /\ documents' = r.documents
            /\ embeddings' = r.embeddings
            /\ diskDocs' = r.blobs.dD
            /\ diskEmbs' = r.blobs.dE
            /\ saveOk' = IF io = "ok" THEN "ok" ELSE "failed"
            /\ last' = [NoLast EXCEPT !.op = "ingest", !.io = io, !.raised = r.raised,
                                      !.logged = r.logged,
                                      !.preDocs = documents, !.preEmbs = embeddings,
                                      !.files = paths, !.returned = Len(batch)]
  /\ prev' = NoPrev
  /\ UNCHANGED pc
  /\ UNCHANGED chunkVars
  /\ UNCHANGED turnVars

-----------------------------------------------------------------------------
(* The conversation memory (utils/memory.py, ChatMemory) *)

\* config.py 25: MAX_HISTORY_LENGTH
MaxHistoryLength == 20

\* add_message(role, content, metadata): append, then drop the oldest
\* messages beyond the configured length
AddMessage(mem, role, content, sources) ==
  LET m == Append(mem, [role |-> role, content |-> content, sources |-> sources])
  IN  IF Len(m) > MaxHistoryLength
      THEN SubSeq(m, Len(m) - MaxHistoryLength + 1, Len(m))
      ELSE m

\* get_messages(): role and content of every message, in order, no metadata
GetMessages(mem) ==
  [i \in 1..Len(mem) |-> [role |-> mem[i].role, content |-> mem[i].content]]

-----------------------------------------------------------------------------
(* WebSearchTool, web_search.py 59-90 *)

\* what the search provider does: the call fails, or returns results
WebOutcomes == {"fail", "hits"}

WebHits == <<[title |-> "Amazon Q3 results"], [title |-> "AMZN stock"]>>

\* web_search.py 59-73: the response of the provider; {"results": []} when
\* the call raises
WebSearch(web) == IF web = "hits" THEN WebHits ELSE <<>>

\* web_search.py 75-90: a notice when there is no result, else one block per
\* result
FormatSearchResults(results) ==
  IF results = <<>> THEN [kind |-> "notice", blocks |-> <<>>]
  ELSE [kind |-> "results", blocks |-> results]

-----------------------------------------------------------------------------
(* should_use_web_search, app_original.py 208-215 *)

\* app_original.py 210-214
web_search_indicators ==
  << <<"l","a","t","e","s","t">>,
     <<"r","e","c","e","n","t">>,
     <<"c","u","r","r","e","n","t">>,
     <<"n","e","w","s">>,
     <<"t","o","d","a","y">>,
     <<"2","0","2","4">>,
     <<"2","0","2","5">>,
     <<"w","h","a","t","'","s"," ","h","a","p","p","e","n","i","n","g">>,
     <<"b","r","e","a","k","i","n","g">>,
     <<"u","p","d","a","t","e">>,
     <<"t","r","e","n","d">>,
     <<"s","t","o","c","k"," ","p","r","i","c","e">>,
     <<"a","n","a","l","y","s","t">>,
     <<"r","a","t","i","n","g">>,
     <<"t","a","r","g","e","t"," ","p","r","i","c","e">>,
     <<"Q","1">>,
     <<"Q","2">>,
     <<"Q","3">>,
     <<"Q","4">> >>

\* app_original.py 215: any(indicator in prompt.lower() for indicator in ...)
ShouldUseWebSearch(prompt) ==
  \E lowered \in {Lower(prompt)} :
    \E i \in 1..Len(web_search_indicators) :
      Contains(lowered, web_search_indicators[i])

-----------------------------------------------------------------------------
(* generate_response, app_original.py 142-206 *)

\* "Q3 results"
QueryQuarter ==
  <<"Q","3"," ","r","e","s","u","l","t","s">>
\* a financial question, one with the trigger "today", one with "Q3"
Prompts == {QueryIncome, QueryWeather, QueryQuarter}

\* app_original.py 154-157: the attribution of the retrieved context: the
\* file name of the default report is looked for anywhere in the context
\* string, source names and contents alike
RagSource(rag_context) ==
  IF \E whole \in {ContextText(rag_context)} : Contains(whole, ReportFileName)
  THEN "Amazon 2023 Annual Report"
  ELSE "Uploaded Documents"

\* app_original.py 169: one attribution per result, at most three
WebSources(results) ==
  LET top == PySlice(results, 0, 3)
  IN  [i \in 1..Len(top) |-> top[i].title]

\* app_original.py 149-161: the retrieval step, r being what
\* retrieve_relevant_context returned or raised
RetrievalStep(use_rag, r) ==
  IF ~use_rag
  THEN [raised |-> FALSE, rag |-> <<>>, sources |-> <<>>, needs_web_search |-> FALSE]
  ELSE IF r.raised
  THEN [raised |-> TRUE, rag |-> <<>>, sources |-> <<>>, needs_web_search |-> FALSE]
  ELSE [raised |-> FALSE,
        rag |-> r.context,
        sources |-> IF r.context # <<>> THEN <<RagSource(r.context)>> ELSE <<>>,
        needs_web_search |-> r.is_financial /\ r.context = <<>>]

\* app_original.py 164: whether the web search is performed
WebSearchDecision(prompt, use_web_search, needs_web_search) ==
  use_web_search /\ (needs_web_search \/ ShouldUseWebSearch(prompt))

\* app_original.py 142-206.  mem is the memory as generate_response finds it,
\* r the outcome of retrieve_relevant_context, web the behaviour of the search
\* provider, llm whether the model call succeeds.
GenerateResponse(mem, prompt, use_rag, use_web_search, r, web, llm) ==
  LET step1    == RetrievalStep(use_rag, r)
      searched == WebSearchDecision(prompt, use_web_search, step1.needs_web_search)
      results  == IF searched THEN WebSearch(web) ELSE <<>>
      context  == [rag |-> step1.rag,
                   web |-> IF searched THEN FormatSearchResults(results).kind
                           ELSE "none"]
      sources  == step1.sources \o WebSources(results)
      messages == Append(GetMessages(mem), [role |-> "user", content |-> prompt])
  IN  IF step1.raised
      THEN [raised |-> TRUE, failed_in |-> "retrieval", needs_web_search |-> FALSE,
            web_searched |-> FALSE, llm_called |-> FALSE, context |-> NoContext,
            sources |-> <<>>, messages |-> <<>>, response |-> ""]
      ELSE [raised |-> ~llm, failed_in |-> IF llm THEN "none" ELSE "llm",
            needs_web_search |-> step1.needs_web_search,
            web_searched |-> searched, llm_called |-> TRUE, context |-> context,
            sources |-> sources, messages |-> messages,
            response |-> IF llm THEN "answer" ELSE ""]

\* app_original.py 149: retrieve_relevant_context is not called
NotRetrieved ==
  [results |-> <<>>, raised |-> FALSE, context |-> <<>>, is_financial |-> FALSE]

\* conversations are followed for this many turns
MaxTurns == 2

\* how a chat turn ends: the reply is added to the memory; the model call
\* raises; or the framework stops the script run at one of the st.* calls
\* between the return of generate_response and the add_message of the reply
\* (132-136), as it does when a widget event asks for a rerun
Endings == {"completes", "model_fails", "stopped"}

\* app_original.py 114-140: one chat turn.  The user message is added to the
\* memory (116), generate_response runs (125-130), and when it returns the
\* assistant message is added with its sources (139-140); an exception of
\* generate_response, or a stop of the script run, ends the turn before that.
Turn(prompt, use_rag, use_web_search, available, web, ending) ==
  /\ pc = "up"
  /\ Len(memory) + 2 <= 2 * MaxTurns
  /\ LET mem1 == AddMessage(memory, "user", prompt, <<>>)
         q    == EmbedOne(prompt, available)
     IN  \E r \in IF use_rag
                  THEN RetrieveOutcomes(documents, embeddings, prompt, q)
                  ELSE {NotRetrieved} :
           \E g \in {GenerateResponse(mem1, prompt, use_rag, use_web_search, r, web,
                                      ending # "model_fails")} :
               /\ memory' = IF g.raised \/ ending = "stopped" THEN mem1
                            ELSE AddMessage(mem1, "assistant", g.response, g.sources)
               /\ turn' = [op |-> "turn", prompt |-> prompt, use_rag |-> use_rag,
                           use_web_search |-> use_web_search,
                           retrieved |-> IF use_rag THEN r.context ELSE <<>>,
                           web |-> IF g.web_searched THEN web ELSE "none",
                           raised |-> g.raised, failed_in |-> g.failed_in,
                           needs_web_search |-> g.needs_web_search,
                           web_searched |-> g.web_searched,
                           llm_called |-> g.llm_called, context |-> g.context,
                           sources |-> g.sources, messages |-> g.messages,
                           response |-> g.response,
                           memoryBefore |-> memory, memoryAtCall |-> mem1,
                           stopped |-> IF ~g.raised /\ ending = "stopped"
                                       THEN "after_generate_response" ELSE "no"]
  /\ UNCHANGED storeVars
  /\ UNCHANGED chunkVars

\* app_original.py 116-120: the script run is stopped after the user message
\* was added and before generate_response is called
TurnStoppedEarly(prompt) ==
  /\ pc = "up"
  /\ Len(memory) + 2 <= 2 * MaxTurns
  /\ memory' = AddMessage(memory, "user", prompt, <<>>)
  /\ turn' = [NoTurn EXCEPT !.op = "turn", !.prompt = prompt,
                            !.memoryBefore = memory,
                            !.stopped = "before_generate_response"]
  /\ UNCHANGED storeVars
  /\ UNCHANGED chunkVars

\* app_original.py 96-98: "Clear Chat History": clear_memory() empties the
\* memory, the store is not touched
ClearMemory ==
  /\ pc = "up"
  /\ memory' = <<>>
  /\ turn' = [NoTurn EXCEPT !.op = "clear"]
  /\ UNCHANGED storeVars
  /\ UNCHANGED chunkVars

TurnStart ==
  /\ memory = <<>>
  /\ turn = NoTurn

ChunkIdle ==
  /\ text = <<>>
  /\ chunk_size = 1
  /\ overlap = 0
  /\ start = 0
  /\ chunks = <<>>
  /\ cpc = "idle"

StoreStart ==
  /\ documents = <<>>
  /\ embeddings = <<>>
  /\ diskDocs = Missing
  /\ diskEmbs = Missing
  /\ pc = "start"
  /\ saveOk = "none"
  /\ prev = NoPrev
  /\ last = NoLast

\* no store constructed yet, nothing persisted
Init == ChunkIdle /\ StoreStart /\ TurnStart

\* The store over storage whose writes can fail and a process that can stop:
\* construction, seeding, add_documents, crashes.
Next ==
  \/ Construct
  \/ ConstructKeep
  \/ SeedNothing
  \/ \E io \in IoOutcomes : SeedDefault(io)
  \/ \E batch \in Batches, io \in IoOutcomes : AddDocuments(batch, io)
  \/ \E batch \in Batches, at \in IoOutcomes : CrashDuringAdd(batch, at)

Spec == Init /\ [][Next]_vars

\* The store over healthy storage, queried: construction, seeding,
\* add_documents, search and retrieve_relevant_context.
NextSearch ==
  \/ Construct
  \/ ConstructKeep
  \/ SeedNothing
  \/ SeedDefault("ok")
  \/ \E batch \in Batches : AddDocuments(batch, "ok")
  \/ \E query \in Queries, k \in 0..MaxTopK, available \in BOOLEAN :
       Search(query, k, available)
  \/ \E query \in Queries, available \in BOOLEAN : Retrieve(query, available)

SpecSearch == Init /\ [][NextSearch]_vars

\* chunk_text called on any text with any parameters
NextChunk ==
  \/ \E t \in Texts, size \in 1..MaxChunkSize, ov \in 0..MaxChunkSize :
       ChunkCall(t, size, ov)
  \/ ChunkStep
  \/ ChunkReturn

SpecChunk == Init /\ [][NextChunk]_vars

\* app_original.py 72-84: files are uploaded and processed while the index
\* holds nothing
UploadToEmptyIndex(paths) ==
  /\ documents = <<>>
  /\ Ingest(paths, "ok")

\* Uploads: process_and_store_documents over a store that was seeded or
\* loaded.  The seeding write succeeds, or fails where it leaves a half-loaded
\* store behind; the writes of the uploads succeed (their failures are
\* followed in Spec).
NextIngest ==
  \/ Construct
  \/ ConstructKeep
  \/ SeedNothing
  \/ \E io \in {"ok", "fail_open_embs"} : SeedDefault(io)
  \/ \E paths \in FileBatches : Ingest(paths, "ok")

SpecIngest == Init /\ [][NextIngest]_vars

\* Chat turns over a store that was seeded, or loaded from what an earlier
\* construction left in storage, the seeding write succeeding or failing
\* where it leaves a half-loaded store behind.  An upload is followed into an
\* index that is empty: once the default report is in the index, each context
\* of up to three records holds it.
NextTurn ==
  \/ Construct
  \/ ConstructKeep
  \/ SeedNothing
  \/ \E io \in {"ok", "fail_open_embs"} : SeedDefault(io)
  \/ \E paths \in TurnUploads : UploadToEmptyIndex(paths)
  \/ \E prompt \in Prompts, use_rag \in BOOLEAN, use_web_search \in BOOLEAN,
        available \in BOOLEAN, web \in WebOutcomes, ending \in Endings :
       Turn(prompt, use_rag, use_web_search, available, web, ending)
  \/ \E prompt \in Prompts : TurnStoppedEarly(prompt)
  \/ ClearMemory

SpecTurn == Init /\ [][NextTurn]_vars

-----------------------------------------------------------------------------
(* Properties of chunk_text, checked under SpecChunk *)

\* ceil(a / b) for b > 0
CeilDiv(a, b) == 0 - ((0 - a) \div b)

\* chunk[overlap:] of every chunk after the first, appended to the first
Reconstruct(cs, ov) ==
  IF cs = <<>> THEN <<>>
  ELSE Head(cs) \o
       Concat([i \in 1..(Len(cs) - 1) |-> PySlice(cs[i + 1], ov, Len(cs[i + 1]))])

\* C7 as stated: for chunk_size > overlap >= 0 chunk_text returns
\* ceil((len(text) - overlap) / (chunk_size - overlap)) chunks, and no chunk
\* for the empty text.
C7_CountMinusOverlap ==
  (cpc = "done" /\ chunk_size > overlap) =>
    Len(chunks) = IF text = <<>> THEN 0
                  ELSE CeilDiv(Len(text) - overlap, chunk_size - overlap)

\* C7 amended: for chunk_size > overlap >= 0 chunk_text returns
\* ceil(len(text) / (chunk_size - overlap)) chunks, one per window start
\* 0, step, 2*step, ... below len(text); no chunk for the empty text.
C7_ChunkCount ==
  (cpc = "done" /\ chunk_size > overlap) =>
    /\ Len(chunks) = CeilDiv(Len(text), chunk_size - overlap)
    /\ (text = <<>> => chunks = <<>>)

C7_Witness ==
  /\ cpc = "done"
  /\ chunk_size > overlap
  /\ overlap > 0
  /\ Len(text) > chunk_size
  /\ Len(chunks) >= 3

\* C8: for chunk_size > overlap >= 0 the first chunk followed by every later
\* chunk without its first overlap characters is the text, and chunk i
\* (counted from 0) is text[i*step : i*step + chunk_size], step being
\* chunk_size - overlap.
C8_Reconstruct ==
  (cpc = "done" /\ chunk_size > overlap) =>
    /\ Reconstruct(chunks, overlap) = text
    /\ \A i \in 1..Len(chunks) :
         LET from == (i - 1) * (chunk_size - overlap)
         IN  chunks[i] = SubSeq(text, from + 1, Min(from + chunk_size, Len(text)))

\* a run whose last chunk is shorter than the overlap
C8_Witness ==
  /\ cpc = "done"
  /\ chunk_size > overlap
  /\ overlap >= 1
  /\ Len(chunks) >= 3
  /\ Len(chunks[Len(chunks)]) < overlap
  /\ Reconstruct(chunks, overlap) = text

\* C9: the window start strictly advances on every iteration of the loop of
\* chunk_text, whatever the parameters (overlap >= chunk_size included).
C9_StartAdvances == [][ChunkStep => start' > start]_vars

-----------------------------------------------------------------------------
(* Properties of the store, checked under Spec *)

\* C1: a constructed store holds as many embeddings as documents, whatever
\* the persisted pair it was constructed over.
C1_Lockstep == pc = "up" => Len(documents) = Len(embeddings)

\* C3 as stated, for a store that held at least one document: a store
\* constructed over the path of another holds the documents and embeddings
\* the other held in memory, in order.
C3_RoundTripAlways ==
  (pc = "up" /\ last.op = "init" /\ prev.how = "reload" /\ prev.docs # <<>>) =>
    (documents = prev.docs /\ embeddings = prev.embs)

\* C3 amended: a store constructed over the path of another, whose latest
\* save_store wrote both blobs and which held at least one document, holds
\* the documents and embeddings the other held in memory, in order.
C3_RoundTripAfterSave ==
  (pc = "up" /\ last.op = "init" /\ prev.how = "reload"
     /\ prev.saveOk = "ok" /\ prev.docs # <<>>) =>
    (documents = prev.docs /\ embeddings = prev.embs)

C3_Witness ==
  /\ pc = "up"
  /\ last.op = "init"
  /\ prev.how = "reload"
  /\ prev.saveOk = "ok"
  /\ Len(prev.docs) >= 2
  /\ documents = prev.docs
  /\ embeddings = prev.embs

\* C4: after the process stopped inside add_documents, load_store restores at
\* least what the store held when that call began: its documents and its
\* embeddings are prefixes of what is loaded.
C4_CrashKeepsCompleted ==
  (pc = "loaded" /\ prev.how = "crash") =>
    (IsPrefix(prev.docs, documents) /\ IsPrefix(prev.embs, embeddings))

\* C5: when a blob is missing or unreadable, load_store does not raise and
\* leaves documents and embeddings both empty.
C5_ReadFailureEmpty ==
  (pc = "loaded" /\ last.op = "load" /\ last.readFailure) =>
    (~last.raised /\ documents = <<>> /\ embeddings = <<>>)

AppendedInMemory ==
  /\ documents = last.preDocs \o last.batch
  /\ embeddings = last.preEmbs \o
       EmbedBatch([i \in 1..Len(last.batch) |-> last.batch[i].content])

\* C6 as stated: when storage cannot be written add_documents raises to its
\* caller, with the records of the call appended in memory.
C6_WriteFailureRaises ==
  (last.op = "add" /\ last.io # "ok") => (last.raised /\ AppendedInMemory)

\* C6 amended: when storage cannot be written add_documents does not raise:
\* save_store logs the failure and add_documents returns normally, with the
\* records of the call appended, in order and with their embeddings, to the
\* documents and embeddings in memory that later searches read.
C6_WriteFailureLogged ==
  (last.op = "add" /\ last.io # "ok") =>
    (~last.raised /\ last.logged /\ AppendedInMemory)

C6_Witness ==
  /\ last.op = "add"
  /\ last.io = "fail_dump_docs"
  /\ Len(last.batch) = 2
  /\ Len(last.preDocs) >= 1
  /\ ~last.raised
  /\ AppendedInMemory
  /\ diskDocs = Corrupt

-----------------------------------------------------------------------------
(* Properties of search and retrieval, checked under SpecSearch *)

ResultIndices == {last.results[i].idx : i \in 1..Len(last.results)}

\* C2: on a non-empty index, with the query embedded, search returns
\* min(top_k, n) stored records by descending similarity, the earlier
\* inserted first among equals, and leaves out none more similar than one
\* it returns.
C2_TopKStable ==
  (last.op = "search" /\ documents # <<>> /\ last.qvec # Absent) =>
    /\ ~last.raised
    /\ Len(last.results) = Min(last.top_k, Len(documents))
    /\ \A i \in 1..Len(last.results) :
         /\ last.results[i].idx \in 1..Len(documents)
         /\ last.results[i].doc = documents[last.results[i].idx]
    /\ \A i, j \in 1..Len(last.results) :
         i < j =>
           /\ last.results[i].idx # last.results[j].idx
           /\ ~SimLess(last.results[i].similarity, last.results[j].similarity)
           /\ (SimEq(last.results[i].similarity, last.results[j].similarity)
                 => last.results[i].idx < last.results[j].idx)
    /\ \A d \in (1..Len(documents)) \ ResultIndices :
         \A i \in 1..Len(last.results) :
           ~SimLess(last.results[i].similarity, Cosine(last.qvec, embeddings[d]))

\* a keyword of the list occurs in the query, letter case ignored
MentionsKeyword(q) ==
  \E i \in 1..Len(financial_keywords) :
    Contains(Lower(q), Lower(financial_keywords[i]))

\* C10: is_financial is true exactly when a keyword of the list occurs in
\* the query, letter case ignored, whether or not the search found anything.
C10_FinancialIffKeyword ==
  (last.op = "retrieve" /\ ~last.raised) =>
    (last.is_financial <=> MentionsKeyword(last.query))

-----------------------------------------------------------------------------
(* The chat turn: generate_response and its caller *)

\* some trigger of the list occurs in the prompt, letter case ignored
MentionsTrigger(q) ==
  \E lowered \in {Lower(q)} :
    \E i \in 1..Len(web_search_indicators) :
      Contains(lowered, Lower(web_search_indicators[i]))

\* C11: in a turn that reaches the web-search step, the web search is
\* performed exactly when web search is enabled and either retrieval was
\* enabled, the prompt mentions a financial keyword and the retrieved context
\* is empty, or the prompt mentions a trigger of the list, letter case
\* ignored ("Q1" .. "Q4" included).
C11_WebSearchIff ==
  (turn.op = "turn" /\ turn.failed_in # "retrieval"
     /\ turn.stopped # "before_generate_response") =>
    (turn.web_searched <=>
       /\ turn.use_web_search
       /\ \/ turn.use_rag /\ MentionsKeyword(turn.prompt) /\ turn.retrieved = <<>>
          \/ MentionsTrigger(turn.prompt))

\* C12: a chat turn fails only when the call of the language model fails: a
\* failure of the retrieval step or of the web-search step is absorbed and
\* the turn goes on to the model.
C12_OnlyModelFailureFails ==
  (turn.op = "turn" /\ turn.raised) => (turn.llm_called /\ turn.failed_in = "llm")

\* C14: in every turn the messages passed to the language model are the
\* messages of the prior turns, in order, followed by the current user query
\* once, as the last element; nothing of the turn is in the memory when the
\* model is called; and a turn whose model call fails appends no assistant
\* message.
C14_TurnOrdering ==
  turn.op = "turn" =>
    /\ turn.llm_called =>
          turn.messages = Append(GetMessages(turn.memoryBefore),
                                 [role |-> "user", content |-> turn.prompt])
    /\ turn.memoryAtCall = turn.memoryBefore
    /\ turn.failed_in = "llm" =>
          \A i \in (Len(turn.memoryBefore) + 1)..Len(memory) :
             memory[i].role # "assistant"

-----------------------------------------------------------------------------
(* Uploads: process_and_store_documents *)

\* a path whose file is processed: the file exists, the extension of the path
\* is one of pdf, docx and txt in any letter case, and the text can be
\* extracted
GoodFile(path) ==
  /\ FileAt(path).exists
  /\ FileAt(path).readable
  /\ \E e \in SupportedExtensions : Lower(SplitExt(path)) = e

\* the chunks of the good files of paths, file by file, as records of the index
RECURSIVE GoodRecords(_)
GoodRecords(paths) ==
  IF paths = <<>> THEN <<>>
  ELSE LET own == IF GoodFile(Head(paths))
                  THEN FileDocuments(Head(paths),
                                     ChunkText(FileAt(Head(paths)).text,
                                               DefaultChunkSize, DefaultOverlap))
                  ELSE <<>>
       IN  own \o GoodRecords(Tail(paths))

\* C13: process_and_store_documents does not fail, whatever files are in the
\* batch; the records it adds to the index are the chunks of the good files,
\* the files it skips changing nothing; and the number it returns is the
\* number of records by which documents and embeddings have grown.
C13_IngestCount ==
  last.op = "ingest" =>
    /\ ~last.raised
    /\ documents = last.preDocs \o GoodRecords(last.files)
    /\ last.returned = Len(GoodRecords(last.files))
    /\ Len(documents) = Len(last.preDocs) + last.returned
    /\ Len(embeddings) = Len(last.preEmbs) + last.returned

\* a batch of a skipped file followed by a good one has been processed, and
\* the chunks of the good file are in the index
C13_Witness ==
  /\ last.op = "ingest"
  /\ Len(last.files) = 2
  /\ ~GoodFile(last.files[1])
  /\ GoodFile(last.files[2])
  /\ last.returned = 2
  /\ Len(documents) = Len(last.preDocs) + 2

====
